---- MODULE Spec2Model ----
(***************************************************************************)
(* A model of jsonrest-go: the router / group tree, middleware composition *)
(* at dispatch time, error translation and the JSON response writer.       *)
(*                                                                         *)
(* One ServeHTTP action runs one whole request: gzip negotiation, route     *)
(* matching, the middleware chain, the endpoint, panic recovery,           *)
(* translateError and sendJSON.  Accept, Step and Finish run the same      *)
(* request in steps, so that requests interleave as their goroutines do.   *)
(* The path table (httprouter) and the gzip handler (gziphandler) are used *)
(* through their contracts: Handle registers (method, path), a request is  *)
(* dispatched to the registered entry that matches it or to NotFound; the  *)
(* gzip handler compresses only for a request that advertises gzip.        *)
(***************************************************************************)
EXTENDS Integers, Sequences, FiniteSets, TLC

VARIABLES
    routers,   \* Seq of Router structs; routers[1] is the router NewRouter made
    heap,      \* Seq of backing arrays of []Option slices
    tables,    \* Seq of httprouter.Router values: [routes, NotFound]
    given,     \* history: per router, the options it was configured with
    unknownError,  \* the HTTPError the package variable unknownError points to
    inflight,  \* the requests being handled, one record per running handler
    resp       \* the observation of the last request served, or NoResp

vars == <<routers, heap, tables, given, unknownError, inflight, resp>>

-----------------------------------------------------------------------------
(* Bounds *)

MaxRoutersMW  == 3   \* routers in the tree, middleware specification
MaxUse        == 4   \* middleware registered in the whole tree
MaxRoutersErr == 2   \* routers in the tree, error specification
MaxUseErr     == 1   \* middleware registered in the whole tree, error specification
MaxRoutersNF  == 2   \* routers in the tree, not-found specification
MaxUseNF      == 1   \* middleware registered in the whole tree, not-found specification
MaxRoutersCfg == 5   \* routers in the tree, configuration specification
MaxNewOpts    == 2   \* options passed to NewRouter
MaxGroupOpts  == 1   \* options passed to one Group call
MaxRoutersTable == 3 \* routers in the tree, path-table specification
MaxUseTable   == 1   \* middleware registered in the whole tree, path-table specification
MaxRoutersGzip == 2  \* routers in the tree, compression specification
MaxUseHdr     == 1   \* middleware registered on the router, header specification
MaxUseMeta    == 1   \* middleware registered on the router, scratch-store specification
MaxInflight   == 2   \* requests handled at the same time
MaxRoutersUnk == 2   \* routers in the tree, unknown-error specification
MaxRoutersFrame == 4 \* routers in the tree, frame specification
MaxUseFrame   == 1   \* middleware registered in the whole tree, frame specification

-----------------------------------------------------------------------------
(* Strings are sequences of characters where the code looks inside them. *)

Tab     == "\\t"
Newline == "\\n"
Space   == " "

RECURSIVE Replace(_, _, _)
\* strings.Replace(s, old, new, -1) for a one-character old
Replace(s, old, new) ==
    IF s = <<>> THEN <<>>
    ELSE (IF Head(s) = old THEN new ELSE <<Head(s)>>) \o Replace(Tail(s), old, new)

RECURSIVE SplitFrom(_, _, _)
SplitFrom(s, sep, cur) ==
    IF s = <<>> THEN <<cur>>
    ELSE IF Head(s) = sep THEN <<cur>> \o SplitFrom(Tail(s), sep, <<>>)
    ELSE SplitFrom(Tail(s), sep, Append(cur, Head(s)))

\* strings.Split(s, sep) for a one-character sep: always at least one piece
Split(s, sep) == SplitFrom(s, sep, <<>>)

-----------------------------------------------------------------------------
(* Values an endpoint can return (interface{}) and errors. *)

Nil == [t |-> "nil"]
M(k, v) == [t |-> "M", k |-> k, v |-> v]
Unencodable == [t |-> "chan"]                 \* a value encoding/json rejects
Response(status, body) == [t |-> "Response", StatusCode |-> status, Body |-> body]

PlainError(text) == [t |-> "error", text |-> text]          \* errors.New(text)
TestError(msg, status) == [t |-> "testError", Message |-> msg, status |-> status]

\* Error(status, code, message)
Error(status, code, message) ==
    [t |-> "HTTPError", Code |-> code, Message |-> message, Details |-> <<>>,
     Status |-> status]

\* the HTTPErrorResponse interface: error + StatusCode()
IsHTTPErrorResponse(err) == err.t \in {"HTTPError", "testError"}

StatusCode(err) == IF err.t = "HTTPError" THEN err.Status ELSE err.status

\* dumpError
dumpError(err) == Split(Replace(err.text, Tab, <<Space, Space>>), Newline)

\* fault: every error is collapsed to the unknown error
translateErrorAlwaysUnknown(err, dumpInternalError) ==
    [errResponse |-> unknownError, unknownError |-> unknownError]

\* fault: the details are filled in whatever the flag is
translateErrorDumpsAlways(err, dumpInternalError) ==
    [errResponse |-> IF IsHTTPErrorResponse(err) THEN err
                     ELSE [unknownError EXCEPT !.Details = dumpError(err)],
     unknownError |-> unknownError]

\* fault: httpErr := unknownError, the details are written through the pointer
translateErrorInPlace(err, dumpInternalError) ==
    IF IsHTTPErrorResponse(err)
    THEN [errResponse |-> err, unknownError |-> unknownError]
    ELSE LET written == IF dumpInternalError
                        THEN [unknownError EXCEPT !.Details = dumpError(err)]
                        ELSE unknownError
         IN  [errResponse |-> written, unknownError |-> written]

\* translateError: the HTTPErrorResponse returned and *unknownError after the
\* call.  e is a copy of the struct, so the write to httpErr.Details stays in e.
translateError(err, dumpInternalError) ==
    IF IsHTTPErrorResponse(err)
    THEN [errResponse |-> err, unknownError |-> unknownError]
    ELSE LET e == unknownError
             httpErr == IF dumpInternalError THEN [e EXCEPT !.Details = dumpError(err)]
                        ELSE e
         IN  [errResponse |-> httpErr, unknownError |-> unknownError]

-----------------------------------------------------------------------------
(* JSON: documents are trees, [s], [b], [arr] or [obj] (members in order). *)

JStr(s)  == [s |-> s]
JBool(b) == [b |-> b]
JArr(a)  == [arr |-> a]
JObj(ms) == [obj |-> ms]
Member(k, v) == [k |-> k, v |-> v]

\* (*HTTPError).MarshalJSON: details carries omitempty
MarshalHTTPError(err) ==
    JObj(<< Member("error",
            JObj(<< Member("code", JStr(err.Code)),
                    Member("message", JStr(err.Message)) >>
                 \o (IF Len(err.Details) = 0 THEN <<>>
                     ELSE << Member("details",
                              JArr([i \in 1..Len(err.Details) |-> JStr(err.Details[i])])) >>))) >>)

\* json.Marshal of the values of the model: [ok, json]
Marshal(v) ==
    CASE v.t = "HTTPError" -> [ok |-> TRUE, json |-> MarshalHTTPError(v)]
      [] v.t = "testError" -> [ok |-> TRUE,
                               json |-> JObj(<< Member("message", JStr(v.Message)) >>)]
      [] v.t = "M"         -> [ok |-> TRUE, json |-> JObj(<< Member(v.k, JStr(v.v)) >>)]
      [] OTHER             -> [ok |-> FALSE, json |-> JObj(<<>>)]

-----------------------------------------------------------------------------
(* http.ResponseWriter: the first WriteHeader fixes the status and the     *)
(* headers that go out; later WriteHeader calls are superfluous.           *)

NewWriter == [header |-> {}, calls |-> <<>>, status |-> 0, sent |-> {}, body |-> <<>>]

HeaderSet(w, k, v) ==
    [w EXCEPT !.header = {h \in @ : h[1] # k} \cup {<<k, v>>}]

WriteHeader(w, status) ==
    [w EXCEPT !.calls  = Append(@, status),
              !.status = IF Len(w.calls) = 0 THEN status ELSE @,
              !.sent   = IF Len(w.calls) = 0 THEN w.header ELSE @]

Write(w, doc) == [w EXCEPT !.body = Append(@, doc)]

ContentTypeJSON == "application/json; charset=utf-8"

\* fault: the content-type header is not set
sendJSONNoContentType(r, w, status, v) ==
    LET w2 == WriteHeader(w, status)
        m  == Marshal(v)
    IN  IF v = Nil THEN [w |-> w2, panic |-> FALSE]
        ELSE IF ~m.ok THEN [w |-> w2, panic |-> TRUE]
        ELSE [w |-> Write(w2, [json |-> m.json, indent |-> ~r.disableJSONIndent,
                               status |-> status]),
              panic |-> FALSE]

\* fault: the status argument is ignored
sendJSONAlways200(r, w, status, v) ==
    LET w2 == WriteHeader(HeaderSet(w, "content-type", ContentTypeJSON), 200)
        m  == Marshal(v)
    IN  IF v = Nil THEN [w |-> w2, panic |-> FALSE]
        ELSE IF ~m.ok THEN [w |-> w2, panic |-> TRUE]
        ELSE [w |-> Write(w2, [json |-> m.json, indent |-> ~r.disableJSONIndent,
                               status |-> 200]),
              panic |-> FALSE]

\* (*Router).sendJSON: [w, panic].  A written document is tagged with the
\* status this call was given.
sendJSON(r, w, status, v) ==
    LET w2 == WriteHeader(HeaderSet(w, "content-type", ContentTypeJSON), status)
        m  == Marshal(v)
    IN  IF v = Nil THEN [w |-> w2, panic |-> FALSE]
        ELSE IF ~m.ok THEN [w |-> w2, panic |-> TRUE]
        ELSE [w |-> Write(w2, [json |-> m.json, indent |-> ~r.disableJSONIndent,
                               status |-> status]),
              panic |-> FALSE]

-----------------------------------------------------------------------------
(* Endpoints and middleware: user code, by name. *)

PassMiddleware == {"A", "B", "C", "D"}      \* return next(ctx, req)
MetaMiddleware == {"SetUser", "SetAnon"}    \* req.Set("user", ...), then next
Middlewares    == PassMiddleware \cup MetaMiddleware \cup {"Deny", "Boom"}

ErrText(e) ==
    CASE e = "fail"      -> <<"f", "o", "o">>
      [] e = "failMulti" -> <<"a", Tab, "b", Newline, Tab, "c">>
      [] e = "failEmpty" -> <<>>
      [] OTHER           -> <<"d", "e", "n", "y">>

Ok(v)    == [tag |-> "ok", val |-> v]
Err(e)   == [tag |-> "err", val |-> e]
Panicked == [tag |-> "panic", val |-> Nil]

\* Request.Param: httprouter.Params.ByName
Param(req, name) ==
    LET hit == {i \in 1..Len(req.params) : req.params[i].Key = name}
    IN  IF hit = {} THEN ""
        ELSE req.params[CHOOSE i \in hit : \A j \in hit : i <= j].Value

\* a string kept in the scratch map
Str(s) == [t |-> "string", s |-> s]

\* sync.Map: pairs <<key, value>>, at most one for a key
Store(meta, key, val) == {p \in meta : p[1] # key} \cup {<<key, val>>}

Load(meta, key) ==
    IF \E p \in meta : p[1] = key THEN (CHOOSE p \in meta : p[1] = key)[2] ELSE Nil

\* fault: the scratch map is the one of the request that is already running
NewRequestSharedMeta(params, route, method) ==
    [params |-> params, route |-> route, method |-> method,
     meta |-> IF inflight = <<>> THEN {} ELSE inflight[1].req.meta, log |-> <<>>]

\* &Request{params, req, responseWriter, route}: meta is the zero sync.Map.
\* History: log lists the Set and Get calls made on this Request.
NewRequest(params, route, method) ==
    [params |-> params, route |-> route, method |-> method, meta |-> {}, log |-> <<>>]

\* Request.Set
RequestSet(req, key, val) ==
    [req EXCEPT !.meta = Store(@, key, val),
                !.log  = Append(@, [op |-> "Set", key |-> key, val |-> val])]

\* Request.Get
RequestGet(req, key) == Load(req.meta, key)

\* the Request after a Get: only the history grows
AfterGet(req, key) ==
    [req EXCEPT !.log = Append(@, [op |-> "Get", key |-> key, val |-> RequestGet(req, key)])]

\* endpoints that use the scratch map
MetaEndpoints == {"whoami", "remember"}

\* the Request once the endpoint named e has made its Set calls
EndpointSets(e, req) ==
    IF e = "remember" THEN RequestSet(req, "user", Str("self")) ELSE req

\* the Request once the endpoint named e has made its Get calls
EndpointGets(e, req) ==
    IF e \in MetaEndpoints THEN AfterGet(req, "user") ELSE req

\* the Request once the middleware named m has run up to its call of next
MiddlewareEnter(m, req) ==
    CASE m = "SetUser" -> RequestSet(req, "user", Str(Param(req, "id")))
      [] m = "SetAnon" -> RequestSet(req, "user", Str("anon"))
      [] OTHER         -> req

Endpoints == {"hello", "nil", "created", "noContent", "detailed", "fail", "failMulti",
              "failEmpty", "customerNotFound", "teapot", "panic", "chan", "user"}

\* what the endpoint named e does with the request: (result, error) or a panic
EndpointResult(e, req) ==
    CASE e = "hello"     -> Ok(M("message", "Hello World"))
      [] e = "nil"       -> Ok(Nil)
      [] e = "created"   -> Ok(Response(201, M("data", "byebye")))
      [] e = "noContent" -> Ok(Response(204, Nil))
      [] e = "chan"      -> Ok(Unencodable)
      [] e = "user"      -> IF Param(req, "id") = "" THEN Err(PlainError(ErrText("fail")))
                            ELSE Ok(M("id", Param(req, "id")))
      [] e \in {"fail", "failMulti", "failEmpty"} -> Err(PlainError(ErrText(e)))
      [] e = "customerNotFound" ->
             Err(Error(404, "customer_not_found", "customer not found"))
      [] e = "detailed"  ->
             Err([Error(422, "unprocessable_entity", "bad") EXCEPT !.Details = << <<"x">> >>])
      [] e = "teapot"    -> Err(TestError("test", 444))
      [] e = "notFound"  -> Err(Error(404, "not_found", "url not found"))
      [] e \in MetaEndpoints ->
             LET v == RequestGet(req, "user")
             IN  IF v = Nil THEN Ok(Nil) ELSE Ok(M("user", v.s))
      [] OTHER           -> Panicked

Enter(who) == [ev |-> "enter", who |-> who]
Exit(who)  == [ev |-> "exit", who |-> who]

RECURSIVE Run(_, _, _)
\* calling m1(m2(...(e))) where layers = <<m1, m2, ...>>: [out, trace, req]
Run(layers, e, req) ==
    IF layers = <<>>
    THEN LET stored == EndpointSets(e, req)
             out == EndpointResult(e, stored)
         IN  [out |-> out,
              trace |-> <<Enter(e)>> \o (IF out.tag = "panic" THEN <<>> ELSE <<Exit(e)>>),
              req |-> EndpointGets(e, stored)]
    ELSE LET m == Head(layers)
         IN  CASE m = "Deny" -> [out |-> Err(PlainError(ErrText("deny"))),
                                 trace |-> <<Enter(m), Exit(m)>>, req |-> req]
               [] m = "Boom" -> [out |-> Panicked, trace |-> <<Enter(m)>>, req |-> req]
               [] OTHER ->
                    LET inner == Run(Tail(layers), e, MiddlewareEnter(m, req))
                    IN  [out |-> inner.out,
                         trace |-> <<Enter(m)>> \o inner.trace
                                   \o (IF inner.out.tag = "panic" THEN <<>> ELSE <<Exit(m)>>),
                         req |-> inner.req]

-----------------------------------------------------------------------------
(* Options and []Option slices.  A slice is [arr, len, cap] over a backing *)
(* array of the heap; arr = 0 is the nil slice.                            *)

WithNotFoundHandler(h)        == [op |-> "WithNotFoundHandler", arg |-> h]
WithDisableJSONIndent         == [op |-> "WithDisableJSONIndent", arg |-> 0]
WithCompressionEnabled(level) == [op |-> "WithCompressionEnabled", arg |-> level]
NilOption                     == [op |-> "nil", arg |-> 0]

\* calling the Option on a Router struct
ApplyOption(o, r) ==
    CASE o.op = "WithNotFoundHandler"    -> [r EXCEPT !.notFound = o.arg]
      [] o.op = "WithDisableJSONIndent"  -> [r EXCEPT !.disableJSONIndent = TRUE]
      [] o.op = "WithCompressionEnabled" -> [r EXCEPT !.enableCompression = TRUE,
                                                      !.gzipHandler = o.arg]
      [] OTHER                           -> r

RECURSIVE ApplyAll(_, _)
\* for _, option := range options { option(r) }
ApplyAll(opts, r) ==
    IF opts = <<>> THEN r ELSE ApplyAll(Tail(opts), ApplyOption(Head(opts), r))

NilSlice == [arr |-> 0, len |-> 0, cap |-> 0]

\* the elements a slice shows
SliceElems(hp, s) == IF s.len = 0 THEN <<>> ELSE SubSeq(hp[s.arr], 1, s.len)

\* the slice a variadic call passes: a fresh array, len = cap = number of arguments
VariadicSlice(hp, args) ==
    IF args = <<>> THEN [heap |-> hp, slice |-> NilSlice]
    ELSE [heap |-> Append(hp, args),
          slice |-> [arr |-> Len(hp) + 1, len |-> Len(args), cap |-> Len(args)]]

\* the capacity append grows a full slice of pointers to (one more element)
GrowCap(cap) == IF cap = 0 THEN 1 ELSE 2 * cap

\* append(s, x): in place when the backing array has room, else a grown copy
AppendOption(hp, s, x) ==
    IF s.len < s.cap
    THEN [heap |-> [hp EXCEPT ![s.arr][s.len + 1] = x],
          slice |-> [s EXCEPT !.len = @ + 1]]
    ELSE LET old == SliceElems(hp, s)
             newcap == GrowCap(s.cap)
         IN  [heap |-> Append(hp, [i \in 1..newcap |->
                                     IF i <= s.len THEN old[i]
                                     ELSE IF i = s.len + 1 THEN x ELSE NilOption]),
              slice |-> [arr |-> Len(hp) + 1, len |-> s.len + 1, cap |-> newcap]]

-----------------------------------------------------------------------------
(* The Router struct and the tree. *)

ZeroRouter ==
    [DumpErrors |-> FALSE, disableJSONIndent |-> FALSE, enableCompression |-> FALSE,
     gzipHandler |-> 0, notFound |-> 0, router |-> 0, middleware |-> <<>>,
     options |-> NilSlice, parent |-> 0]

NoResp == [kind |-> "none"]

Options == {WithDisableJSONIndent, WithCompressionEnabled(1),
            WithNotFoundHandler(1), WithNotFoundHandler(2)}

RECURSIVE SeqsUpTo(_, _)
\* the sequences over S of length at most n
SeqsUpTo(S, n) ==
    IF n = 0 THEN {<<>>}
    ELSE LET shorter == SeqsUpTo(S, n - 1)
         IN  shorter \cup {Append(q, x) : q \in shorter, x \in S}

\* fault: the configured handler is never installed
selectNotFoundAlwaysDefault(r) == [kind |-> "notFoundHandler", r |-> 1, h |-> 0]

\* NewRouter: hr.NotFound
selectNotFound(r) ==
    IF r.notFound = 0 THEN [kind |-> "notFoundHandler", r |-> 1, h |-> 0]
    ELSE [kind |-> "custom", r |-> 0, h |-> r.notFound]

\* NewRouter(options...)
NewRouter(options) ==
    LET v == VariadicSlice(<<>>, options)
        r == ApplyAll(options, [ZeroRouter EXCEPT !.router = 1, !.options = v.slice])
    IN  /\ routers = <<r>>
        /\ heap = v.heap
        /\ tables = << [routes |-> {}, NotFound |-> selectNotFound(r)] >>
        /\ given = <<options>>
        /\ unknownError = Error(500, "unknown_error", "an unknown error occurred")
        /\ inflight = <<>>
        /\ resp = NoResp

\* r.DumpErrors = b (an exported field)
SetDumpErrors(r, b) ==
    /\ r \in 1..Len(routers)
    /\ routers[r].DumpErrors # b
    /\ routers' = [routers EXCEPT ![r].DumpErrors = b]
    /\ resp' = NoResp
    /\ UNCHANGED <<heap, tables, given, unknownError, inflight>>

\* the middleware registered in the whole tree
RECURSIVE UseCount(_)
UseCount(n) == IF n = 0 THEN 0 ELSE Len(routers[n].middleware) + UseCount(n - 1)

RECURSIVE Ancestors(_)
\* r and the routers above it
Ancestors(r) == IF r = 0 THEN {} ELSE {r} \cup Ancestors(routers[r].parent)

\* (*Router).Use(ms...).  History: a registered route whose chain the call
\* lengthens is marked late.  Like every change of the tree, it clears resp.
Use(r, ms, maxUse) ==
    /\ r \in 1..Len(routers)
    /\ ms # <<>>
    /\ UseCount(Len(routers)) + Len(ms) <= maxUse
    /\ routers' = [routers EXCEPT ![r].middleware = @ \o ms]
    /\ tables' = [t \in 1..Len(tables) |->
                    [tables[t] EXCEPT !.routes =
                        {IF r \in Ancestors(en.r) THEN [en EXCEPT !.late = TRUE] ELSE en
                           : en \in @}]]
    /\ resp' = NoResp
    /\ UNCHANGED <<heap, given, unknownError, inflight>>

RECURSIVE GroupLoop(_, _)
\* for _, option := range groupOptions { option(newRouter); append }
GroupLoop(st, groupOptions) ==
    IF groupOptions = <<>> THEN st
    ELSE LET option == Head(groupOptions)
             a == AppendOption(st.heap, st.r.options, option)
         IN  GroupLoop([heap |-> a.heap,
                        r |-> [ApplyOption(option, st.r) EXCEPT !.options = a.slice]],
                       Tail(groupOptions))

\* (*Router).Group(groupOptions...)
Group(r, groupOptions, maxRouters) ==
    /\ r \in 1..Len(routers)
    /\ Len(routers) < maxRouters
    /\ LET newRouter == [ZeroRouter EXCEPT !.parent = r,
                                           !.router = routers[r].router,
                                           !.DumpErrors = routers[r].DumpErrors,
                                           !.options = routers[r].options]
           replayed == ApplyAll(SliceElems(heap, routers[r].options), newRouter)
           st == GroupLoop([heap |-> heap, r |-> replayed], groupOptions)
       IN  /\ routers' = Append(routers, st.r)
           /\ heap' = st.heap
           /\ given' = Append(given, given[r] \o groupOptions)
    /\ resp' = NoResp
    /\ UNCHANGED <<tables, unknownError, inflight>>

-----------------------------------------------------------------------------
(* Middleware application.  A layer list is outermost first: wrapping e    *)
(* with m puts m in front.                                                 *)

\* fault: the list is wrapped first-to-last
RECURSIVE WrapGroupAscending(_, _, _)
WrapGroupAscending(e, middleware, i) ==
    IF i < 1 THEN e
    ELSE WrapGroupAscending(<<middleware[Len(middleware) + 1 - i]>> \o e, middleware, i - 1)

RECURSIVE WrapGroup(_, _, _)
\* for i := len(r.middleware) - 1; i >= 0; i-- { e = r.middleware[i](e) }
WrapGroup(e, middleware, i) ==
    IF i < 1 THEN e
    ELSE WrapGroup(<<middleware[i]>> \o e, middleware, i - 1)

\* fault: the walk visits every router of the tree
RECURSIVE WalkAll(_, _)
WalkAll(e, r) ==
    IF r = 0 THEN e
    ELSE WalkAll(WrapGroup(e, routers[r].middleware, Len(routers[r].middleware)), r - 1)

WalkEveryRouter(e, r) == WalkAll(e, Len(routers))

RECURSIVE WalkUp(_, _)
\* the loop of applyMiddleware's closure: this router, then every parent
WalkUp(e, r) ==
    LET wrapped == WrapGroup(e, routers[r].middleware, Len(routers[r].middleware))
    IN  IF routers[r].parent = 0 THEN wrapped ELSE WalkUp(wrapped, routers[r].parent)

\* fault: the chain is built once, when the route is registered
applyMiddlewareAtRegistration(e, r) ==
    [endpoint |-> e, r |-> r, lazy |-> FALSE, snapshot |-> WalkUp(<<>>, r)]

\* applyMiddleware(e, r): a closure over e and r that walks the tree when called
applyMiddleware(e, r) == [endpoint |-> e, r |-> r, lazy |-> TRUE, snapshot |-> <<>>]

\* an endpoint that no middleware wraps
Bare(e) == [endpoint |-> e, r |-> 0, lazy |-> FALSE, snapshot |-> <<>>]

\* calling an Endpoint value
CallEndpoint(we, req) ==
    Run(IF we.lazy THEN WalkUp(<<>>, we.r) ELSE we.snapshot, we.endpoint, req)

-----------------------------------------------------------------------------
(* The path table. *)

Patterns == {<<"hello">>, <<"users", ":id">>}
Paths    == {<<"hello">>, <<"users", "123">>, <<"invalid_path">>}

IsParamSegment(seg) == seg \in {":id"}
ParamName(seg) == "id"

\* a pattern matches a path: equal segments but for the parameters
Match(pattern, path) ==
    /\ Len(pattern) = Len(path)
    /\ \A i \in 1..Len(pattern) : IsParamSegment(pattern[i]) \/ pattern[i] = path[i]

RECURSIVE ParamsFrom(_, _, _)
ParamsFrom(pattern, path, i) ==
    IF i > Len(pattern) THEN <<>>
    ELSE (IF IsParamSegment(pattern[i])
          THEN << [Key |-> ParamName(pattern[i]), Value |-> path[i]] >>
          ELSE <<>>) \o ParamsFrom(pattern, path, i + 1)

\* httprouter.Params of a matched request
Params(pattern, path) == ParamsFrom(pattern, path, 1)

\* the entries of table hr a request matches (at most one)
Lookup(hr, method, path) ==
    {en \in hr.routes : en.method = method /\ Match(en.path, path)}

\* fault: the endpoint and the handler are built for the root, not for the receiver
HandleOnRoot(r, method, path, endpoint) ==
    /\ r \in 1..Len(routers)
    /\ \A en \in tables[routers[r].router].routes : ~(en.method = method /\ en.path = path)
    /\ tables' = [tables EXCEPT ![routers[r].router].routes =
                    @ \cup {[method |-> method, path |-> path,
                             e |-> applyMiddleware(endpoint, 1), r |-> 1,
                             by |-> r, late |-> FALSE]}]
    /\ resp' = NoResp
    /\ UNCHANGED <<routers, heap, given, unknownError, inflight>>

\* (*Router).Handle(method, path, endpoint): e and r are what the handler
\* closes over.  History: by is the router Handle was called on.
Handle(r, method, path, endpoint) ==
    /\ r \in 1..Len(routers)
    /\ \A en \in tables[routers[r].router].routes : ~(en.method = method /\ en.path = path)
    /\ tables' = [tables EXCEPT ![routers[r].router].routes =
                    @ \cup {[method |-> method, path |-> path,
                             e |-> applyMiddleware(endpoint, r), r |-> r,
                             by |-> r, late |-> FALSE]}]
    /\ resp' = NoResp
    /\ UNCHANGED <<routers, heap, given, unknownError, inflight>>

-----------------------------------------------------------------------------
(* Serving a request. *)

\* fault: no recover
recoverPanicMissing(router, first) == [w |-> first.w, escaped |-> first.panic]

\* the deferred recover() of endpointToHandler: sends what unknownError points to
recoverPanic(router, first) ==
    IF first.panic
    THEN LET again == sendJSON(router, first.w, 500, first.unknownError)
         IN  [w |-> again.w, escaped |-> again.panic]
    ELSE [w |-> first.w, escaped |-> FALSE]

\* endpointToHandler once e has returned (or panicked) with out: translateError,
\* sendJSON and the deferred recover
Respond(router, out, w) ==
    LET tr == IF out.tag = "err" THEN translateError(out.val, router.DumpErrors)
              ELSE [errResponse |-> Nil, unknownError |-> unknownError]
        sent ==
            IF out.tag = "panic" THEN [w |-> w, panic |-> TRUE]
            ELSE IF out.tag = "err"
            THEN sendJSON(router, w, StatusCode(tr.errResponse), tr.errResponse)
            ELSE IF out.val.t = "Response"
            THEN sendJSON(router, w, out.val.StatusCode, out.val.Body)
            ELSE sendJSON(router, w, 200, out.val)
        first == [w |-> sent.w, panic |-> sent.panic, unknownError |-> tr.unknownError]
        done == recoverPanic(router, first)
    IN  [w |-> done.w, recovered |-> first.panic, escaped |-> done.escaped,
         unknownError |-> tr.unknownError]

\* the handler endpointToHandler(e, path, router) returns, called with (w, req, params)
endpointToHandler(we, path, r, w, method, params) ==
    LET run == CallEndpoint(we, NewRequest(params, path, method))
        done == Respond(routers[r], run.out, w)
    IN  [w |-> done.w, trace |-> run.trace, out |-> run.out,
         recovered |-> done.recovered, escaped |-> done.escaped,
         req |-> run.req, unknownError |-> done.unknownError]

\* a handler given to WithNotFoundHandler: 1 answers 200 {"proxy": true} as JSON,
\* 2 panics, 3 answers 404 in plain text
CustomHandler(h, w) ==
    CASE h = 1 ->
           [w |-> Write(WriteHeader(HeaderSet(w, "content-type", ContentTypeJSON), 200),
                        [json |-> JObj(<< Member("proxy", JBool(TRUE)) >>),
                         indent |-> FALSE, status |-> 200]),
            escaped |-> FALSE]
      [] h = 3 ->
           [w |-> Write(WriteHeader(HeaderSet(w, "content-type", "text/plain"), 404),
                        [json |-> JStr("not here"), indent |-> FALSE, status |-> 404]),
            escaped |-> FALSE]
      [] OTHER -> [w |-> w, escaped |-> TRUE]

\* hr.NotFound, called with (w, req)
NotFound(nf, w, method) ==
    IF nf.kind = "notFoundHandler"
    THEN endpointToHandler(Bare("notFound"), <<>>, nf.r, w, method, <<>>)
    ELSE LET c == CustomHandler(nf.h, w)
         IN  [w |-> c.w, trace |-> <<>>, out |-> [tag |-> "none", val |-> Nil],
              recovered |-> FALSE, escaped |-> c.escaped,
              req |-> NewRequest(<<>>, <<>>, method), unknownError |-> unknownError]

\* the entry of hr a request goes to; the NotFound entry when none matches
Route(hr, method, path) ==
    LET hits == Lookup(hr, method, path)
    IN  IF hits # {}
        THEN LET en == CHOOSE x \in hits : TRUE
             IN  [matched |-> TRUE, route |-> en.path, e |-> en.e, r |-> en.r,
                  late |-> en.late, params |-> Params(en.path, path)]
        ELSE [matched |-> FALSE, route |-> <<>>, e |-> Bare("notFound"),
              r |-> hr.NotFound.r, late |-> FALSE, params |-> <<>>]

\* httprouter's ServeHTTP: the matching handler, or NotFound, called with w
Dispatch(hr, method, path, w) ==
    LET to == Route(hr, method, path)
    IN  IF to.matched
        THEN endpointToHandler(to.e, to.route, to.r, w, method, to.params)
        ELSE NotFound(hr.NotFound, w, method)

\* const GzipEncoding
GzipEncoding == "gzip"

\* the Accept-Encoding header, as the set of codings it lists, advertises gzip
AcceptsGzip(accept) == GzipEncoding \in accept

\* the gzip stream of a body, and the body read back from it
Gzip(level, body) == << [gzip |-> body, level |-> level] >>

Gunzip(body) == body[1].gzip

\* what the handler made by r.gzipHandler lets out of the response w of the
\* handler it wraps: for a request that advertises gzip it may compress the
\* body (compress: it does, for this body) and then names the encoding
GzipHandler(level, accept, compress, w) ==
    IF AcceptsGzip(accept) /\ compress /\ w.body # <<>>
    THEN [w EXCEPT !.sent = @ \cup {<<"content-encoding", GzipEncoding>>},
                   !.body = Gzip(level, @)]
    ELSE w

\* fault: the gzip handler wraps the router whatever the flag is
selectHandlerAlwaysGzip(router) == [gzip |-> TRUE, level |-> router.gzipHandler]

\* ServeHTTP: handler = r.router, wrapped by r.gzipHandler if r.enableCompression
selectHandler(router) == [gzip |-> router.enableCompression, level |-> router.gzipHandler]

\* (*Router).ServeHTTP on router r, for a request with the Accept-Encoding
\* codings accept, run to its end
ServeHTTP(r, method, path, accept) ==
    /\ r \in 1..Len(routers)
    /\ \E compress \in BOOLEAN :
          LET hr  == tables[routers[r].router]
              to  == Route(hr, method, path)
              h   == Dispatch(hr, method, path, NewWriter)
              sel == selectHandler(routers[r])
              w   == IF sel.gzip THEN GzipHandler(sel.level, accept, compress, h.w)
                     ELSE h.w
          IN  /\ resp' = [kind |-> "resp", via |-> r, method |-> method, path |-> path,
                          accept |-> accept, matched |-> to.matched, route |-> to.route,
                          endpoint |-> to.e.endpoint, group |-> to.r, late |-> to.late,
                          w |-> w, trace |-> h.trace, out |-> h.out, req |-> h.req,
                          recovered |-> h.recovered, escaped |-> h.escaped,
                          afterPanic |-> resp.kind = "resp" /\ resp.recovered]
              /\ unknownError' = h.unknownError
    /\ UNCHANGED <<routers, heap, tables, given, inflight>>

-----------------------------------------------------------------------------
(* Serving requests concurrently: net/http runs ServeHTTP in one goroutine  *)
(* per request.  A running handler is a record of inflight; its steps are   *)
(* the calls down the middleware chain, the endpoint, and the response.     *)

Running == [tag |-> "running", val |-> Nil]

\* the response w carries an error envelope with a details member
CarriesDetails(w) ==
    \E i \in 1..Len(w.body) :
        LET doc == w.body[i].json
        IN  /\ "obj" \in DOMAIN doc
            /\ Len(doc.obj) = 1 /\ doc.obj[1].k = "error"
            /\ \E j \in 1..Len(doc.obj[1].v.obj) : doc.obj[1].v.obj[j].k = "details"

\* the sequence q without its i-th element
RemoveAt(q, i) == SubSeq(q, 1, i - 1) \o SubSeq(q, i + 1, Len(q))

\* ServeHTTP up to the first call of the chain: the route is looked up, the
\* handler makes its Request and the closure of applyMiddleware wraps the
\* endpoint with the middleware the tree holds now
Accept(r, method, path, accept, maxInflight) ==
    /\ r \in 1..Len(routers)
    /\ Len(inflight) < maxInflight
    /\ LET hr == tables[routers[r].router]
           to == Route(hr, method, path)
           custom == ~to.matched /\ hr.NotFound.kind = "custom"
       IN  inflight' = Append(inflight,
               [via |-> r, method |-> method, path |-> path, accept |-> accept,
                to |-> to, custom |-> custom,
                req |-> NewRequest(to.params, to.route, method),
                todo |-> IF custom THEN <<>>
                         ELSE IF to.e.lazy THEN WalkUp(<<>>, to.e.r) ELSE to.e.snapshot,
                out |-> Running])
    /\ UNCHANGED <<routers, heap, tables, given, unknownError, resp>>

\* the next call down the chain of request i: a middleware up to its call of
\* next, or the endpoint
Step(i) ==
    /\ i \in 1..Len(inflight)
    /\ inflight[i].out = Running /\ ~inflight[i].custom
    /\ LET rq == inflight[i]
       IN  IF rq.todo = <<>>
           THEN LET stored == EndpointSets(rq.to.e.endpoint, rq.req)
                IN  inflight' = [inflight EXCEPT
                        ![i].out = EndpointResult(rq.to.e.endpoint, stored),
                        ![i].req = EndpointGets(rq.to.e.endpoint, stored)]
           ELSE LET m == Head(rq.todo)
                IN  CASE m = "Deny" ->
                           inflight' = [inflight EXCEPT
                               ![i].out = Err(PlainError(ErrText("deny")))]
                      [] m = "Boom" ->
                           inflight' = [inflight EXCEPT ![i].out = Panicked]
                      [] OTHER ->
                           inflight' = [inflight EXCEPT
                               ![i].req = MiddlewareEnter(m, rq.req),
                               ![i].todo = Tail(rq.todo)]
    /\ UNCHANGED <<routers, heap, tables, given, unknownError, resp>>

\* the end of request i: the chain has returned (or panicked) and the handler
\* answers; the handler leaves inflight.  History: afterDump says that an
\* earlier response carried the details of an error.
Finish(i) ==
    /\ i \in 1..Len(inflight)
    /\ inflight[i].out # Running \/ inflight[i].custom
    /\ \E compress \in BOOLEAN :
          LET rq   == inflight[i]
              hr   == tables[routers[rq.via].router]
              done == IF rq.custom
                      THEN LET c == CustomHandler(hr.NotFound.h, NewWriter)
                           IN  [w |-> c.w, recovered |-> FALSE, escaped |-> c.escaped,
                                unknownError |-> unknownError]
                      ELSE Respond(routers[rq.to.r], rq.out, NewWriter)
              sel  == selectHandler(routers[rq.via])
              w    == IF sel.gzip THEN GzipHandler(sel.level, rq.accept, compress, done.w)
                      ELSE done.w
          IN  /\ resp' = [kind |-> "resp", via |-> rq.via, method |-> rq.method,
                          path |-> rq.path, accept |-> rq.accept,
                          matched |-> rq.to.matched, route |-> rq.to.route,
                          endpoint |-> rq.to.e.endpoint, group |-> rq.to.r,
                          w |-> w, out |-> rq.out, req |-> rq.req,
                          recovered |-> done.recovered, escaped |-> done.escaped,
                          afterDump |-> /\ resp.kind = "resp"
                                        /\ (resp.afterDump \/ CarriesDetails(resp.w))]
              /\ unknownError' = done.unknownError
    /\ inflight' = RemoveAt(inflight, i)
    /\ UNCHANGED <<routers, heap, tables, given>>

-----------------------------------------------------------------------------
(* Specifications. *)

\* the middleware values registered somewhere in the tree
Registered ==
    UNION {{routers[r].middleware[i] : i \in 1..Len(routers[r].middleware)}
             : r \in 1..Len(routers)}

\* argument lists of Use made of distinct middleware values not yet registered
FreshMiddleware(n) ==
    {ms \in SeqsUpTo(PassMiddleware \ Registered, n) :
        \A i, j \in 1..Len(ms) : i # j => ms[i] # ms[j]}

\* middleware composition: one tree of groups without options
InitMW == NewRouter(<<>>)

NextMW ==
    \/ \E r \in 1..MaxRoutersMW, ms \in FreshMiddleware(2) : Use(r, ms, MaxUse)
    \/ \E r \in 1..MaxRoutersMW : Group(r, <<>>, MaxRoutersMW)
    \/ \E r \in 1..MaxRoutersMW : Handle(r, "GET", <<"hello">>, "hello")
    \/ \E p \in {<<"hello">>, <<"invalid_path">>} : ServeHTTP(1, "GET", p, {})

SpecMW == InitMW /\ [][NextMW]_vars

\* errors, panics and the response writer: a tree of groups without options
InitErr == NewRouter(<<>>)

NextErr ==
    \/ \E r \in 1..MaxRoutersErr, b \in BOOLEAN : SetDumpErrors(r, b)
    \/ \E r \in 1..MaxRoutersErr, m \in {"A", "Deny", "Boom"} : Use(r, <<m>>, MaxUseErr)
    \/ \E r \in 1..MaxRoutersErr : Group(r, <<>>, MaxRoutersErr)
    \/ \E r \in 1..MaxRoutersErr, e \in Endpoints \ {"user"} :
          Handle(r, "GET", <<"hello">>, e)
    \/ \E p \in {<<"hello">>, <<"invalid_path">>} : ServeHTTP(1, "GET", p, {})

SpecErr == InitErr /\ [][NextErr]_vars

\* unmatched requests: routers and groups made with not-found handlers
NFOptions == {<<>>, <<WithDisableJSONIndent>>, <<WithNotFoundHandler(1)>>,
              <<WithNotFoundHandler(2)>>}

InitNF == \E opts \in NFOptions : NewRouter(opts)

NextNF ==
    \/ \E r \in 1..MaxRoutersNF, m \in {"A", "Boom"} : Use(r, <<m>>, MaxUseNF)
    \/ \E r \in 1..MaxRoutersNF, opts \in NFOptions : Group(r, opts, MaxRoutersNF)
    \/ \E r \in 1..MaxRoutersNF : Handle(r, "GET", <<"hello">>, "hello")
    \/ \E p \in Paths : ServeHTTP(1, "GET", p, {})

SpecNF == InitNF /\ [][NextNF]_vars

\* configuration of the group tree
CfgOptions == {WithDisableJSONIndent, WithCompressionEnabled(1), WithNotFoundHandler(1)}

InitCfg == \E opts \in SeqsUpTo(CfgOptions, MaxNewOpts) : NewRouter(opts)

NextCfg ==
    \E r \in 1..MaxRoutersCfg, opts \in SeqsUpTo(CfgOptions, MaxGroupOpts) :
        Group(r, opts, MaxRoutersCfg)

SpecCfg == InitCfg /\ [][NextCfg]_vars

\* the shared path table: routes registered on groups at any depth, served
\* through the root; the root indents and hides error details, the groups do
\* not indent and may dump errors
InitTable == NewRouter(<<>>)

NextTable ==
    \/ \E r \in 2..MaxRoutersTable : SetDumpErrors(r, TRUE)
    \/ \E r \in 1..MaxRoutersTable : Use(r, <<"A">>, MaxUseTable)
    \/ \E r \in 1..MaxRoutersTable : Group(r, <<WithDisableJSONIndent>>, MaxRoutersTable)
    \/ \E r \in 1..MaxRoutersTable : Handle(r, "GET", <<"users", ":id">>, "user")
    \/ \E r \in 1..MaxRoutersTable : Handle(r, "POST", <<"users", ":id">>, "fail")
    \/ \E method \in {"GET", "POST"} : ServeHTTP(1, method, <<"users", "123">>, {})

SpecTable == InitTable /\ [][NextTable]_vars

\* compression: routers and groups with and without WithCompressionEnabled,
\* requests served through any of them, with and without gzip advertised
GzipOptions == {<<>>, <<WithCompressionEnabled(1)>>, <<WithDisableJSONIndent>>}

AcceptEncodings == {{}, {"deflate"}, {"deflate", "gzip"}}

InitGzip == \E opts \in {<<>>, <<WithCompressionEnabled(1)>>} : NewRouter(opts)

NextGzip ==
    \/ \E r \in 1..MaxRoutersGzip, opts \in GzipOptions : Group(r, opts, MaxRoutersGzip)
    \/ \E r \in 1..MaxRoutersGzip, e \in {"hello", "noContent", "fail", "panic"} :
          Handle(r, "GET", <<"hello">>, e)
    \/ \E r \in 1..MaxRoutersGzip, p \in {<<"hello">>, <<"invalid_path">>},
          accept \in AcceptEncodings : ServeHTTP(r, "GET", p, accept)

SpecGzip == InitGzip /\ [][NextGzip]_vars

\* response headers: one router, every kind of endpoint, with and without a
\* not-found handler of its own
HdrOptions == {<<>>, <<WithNotFoundHandler(1)>>, <<WithNotFoundHandler(3)>>}

InitHdr == \E opts \in HdrOptions : NewRouter(opts)

NextHdr ==
    \/ \E m \in {"A", "Deny", "Boom"} : Use(1, <<m>>, MaxUseHdr)
    \/ \E e \in Endpoints \ {"user"} : Handle(1, "GET", <<"hello">>, e)
    \/ \E p \in {<<"hello">>, <<"invalid_path">>} : ServeHTTP(1, "GET", p, {})

SpecHdr == InitHdr /\ [][NextHdr]_vars

\* the scratch store: one router, set up while no request runs; requests
\* run concurrently, step by step
InitMeta == NewRouter(<<>>)

NextMeta ==
    \/ /\ inflight = <<>>
       /\ \/ \E m \in MetaMiddleware : Use(1, <<m>>, MaxUseMeta)
          \/ Handle(1, "GET", <<"hello">>, "remember")
          \/ Handle(1, "GET", <<"users", ":id">>, "whoami")
    \/ \E p \in {<<"hello">>, <<"users", "123">>, <<"users", "456">>} :
          Accept(1, "GET", p, {}, MaxInflight)
    \/ \E i \in 1..MaxInflight : Step(i)
    \/ \E i \in 1..MaxInflight : Finish(i)

SpecMeta == InitMeta /\ [][NextMeta]_vars

\* the unknown-error singleton: a root that hides error details with a
\* failing route, groups that may dump errors with a failing or panicking
\* route, set up while no request runs; the requests run concurrently, step
\* by step
InitUnk == NewRouter(<<>>)

NextUnk ==
    \/ /\ inflight = <<>>
       /\ \/ \E r \in 2..MaxRoutersUnk : SetDumpErrors(r, TRUE)
          \/ \E r \in 1..MaxRoutersUnk : Group(r, <<>>, MaxRoutersUnk)
          \/ Handle(1, "GET", <<"hello">>, "fail")
          \/ \E r \in 1..MaxRoutersUnk, e \in {"failMulti", "panic"} :
                Handle(r, "GET", <<"users", ":id">>, e)
    \/ \E p \in {<<"hello">>, <<"users", "123">>} : Accept(1, "GET", p, {}, MaxInflight)
    \/ \E i \in 1..MaxInflight : Step(i)
    \/ \E i \in 1..MaxInflight : Finish(i)

SpecUnk == InitUnk /\ [][NextUnk]_vars

\* what the operations on the tree leave alone: groups made with options,
\* middleware, routes and DumpErrors assignments in any order
FrameOptions == {WithDisableJSONIndent, WithCompressionEnabled(1)}

InitFrame == \E opts \in SeqsUpTo(FrameOptions, MaxNewOpts) : NewRouter(opts)

NextFrame ==
    \/ \E r \in 1..MaxRoutersFrame, opts \in SeqsUpTo(FrameOptions, MaxGroupOpts) :
          Group(r, opts, MaxRoutersFrame)
    \/ \E r \in 1..MaxRoutersFrame : SetDumpErrors(r, TRUE)
    \/ \E r \in 1..MaxRoutersFrame : Use(r, <<"A">>, MaxUseFrame)
    \/ \E r \in 1..MaxRoutersFrame : Handle(r, "GET", <<"hello">>, "hello")

SpecFrame == InitFrame /\ [][NextFrame]_vars

-----------------------------------------------------------------------------
(* What the claims speak of. *)

Served == resp.kind = "resp"

RECURSIVE Reverse(_)
Reverse(q) == IF q = <<>> THEN <<>> ELSE Append(Reverse(Tail(q)), Head(q))

RECURSIVE ChainRootFirst(_)
\* the middleware lists from the root down to g, each in registration order
ChainRootFirst(g) ==
    IF g = 0 THEN <<>> ELSE ChainRootFirst(routers[g].parent) \o routers[g].middleware

\* the layers entered (returned from), in order
Entered(trace) == LET q == SelectSeq(trace, LAMBDA ev : ev.ev = "enter")
                  IN  [i \in 1..Len(q) |-> q[i].who]
Returned(trace) == LET q == SelectSeq(trace, LAMBDA ev : ev.ev = "exit")
                   IN  [i \in 1..Len(q) |-> q[i].who]

Ran(m) == Served /\ \E i \in 1..Len(resp.trace) : resp.trace[i].who = m

\* the wire format of the error envelope
Envelope(code, message, details) ==
    JObj(<< Member("error",
            JObj(<< Member("code", JStr(code)), Member("message", JStr(message)) >>
                 \o (IF details = <<>> THEN <<>>
                     ELSE << Member("details",
                              JArr([i \in 1..Len(details) |-> JStr(details[i])])) >>))) >>)

RECURSIVE Join(_, _)
\* the pieces put together again with sep between them
Join(pieces, sep) ==
    IF Len(pieces) = 1 THEN pieces[1]
    ELSE pieces[1] \o <<sep>> \o Join(Tail(pieces), sep)

HasChar(str, c) == \E i \in 1..Len(str) : str[i] = c

\* the response is status code `status` and exactly the one document `json`
Answers(status, json) ==
    /\ resp.w.status = status
    /\ Len(resp.w.body) = 1
    /\ resp.w.body[1].json = json

-----------------------------------------------------------------------------
(* Claims. *)

\* C1: a request to a route of group g enters the middleware root-first, each
\* group's list in registration order, then the endpoint, and the layers
\* return in exactly the reverse order.
C1_RootFirstThenReverse ==
    (Served /\ resp.matched) =>
        LET order == ChainRootFirst(resp.group) \o <<resp.endpoint>>
        IN  /\ Entered(resp.trace) = order
            /\ Returned(resp.trace) = Reverse(order)
            /\ \A i \in 1..Len(resp.trace) :
                  (resp.trace[i].ev = "enter") <=> (i <= Len(order))

C1_Witness ==
    /\ Served /\ resp.matched
    /\ routers[resp.group].parent = 1
    /\ Len(routers[1].middleware) = 2
    /\ Len(routers[resp.group].middleware) = 2
    /\ Len(resp.trace) = 10

\* C2: a request runs exactly the middleware that is, at the moment of the
\* request, in the lists of the route's group and of its ancestors, also
\* the middleware added with Use after the route was registered.
C2_ResolvedAtDispatch ==
    (Served /\ resp.matched) =>
        \A m \in Middlewares :
            Ran(m) <=> \E r \in Ancestors(resp.group) :
                          \E i \in 1..Len(routers[r].middleware) :
                              routers[r].middleware[i] = m

C2_Witness ==
    /\ Served /\ resp.matched /\ resp.late
    /\ resp.group # 1
    /\ Len(resp.trace) > 2

\* C3: the middleware of a group runs only for requests to routes registered
\* on that group or on one of its descendants.
C3_OnlyOwnSubtree ==
    \A r \in 1..Len(routers) :
        \A i \in 1..Len(routers[r].middleware) :
            Ran(routers[r].middleware[i]) =>
                (resp.matched /\ r \in Ancestors(resp.group))

C3_Witness ==
    /\ Served /\ resp.matched
    /\ \E r \in 1..Len(routers) :
          /\ r # resp.group
          /\ routers[r].parent = routers[resp.group].parent
          /\ Len(routers[r].middleware) > 0
    /\ Len(routers[resp.group].middleware) > 0
    /\ Len(routers[1].middleware) > 0

\* the details an error envelope document carries (none when the member is omitted)
DetailsOf(json) ==
    LET inner == json.obj[1].v.obj
    IN  IF Len(inner) < 3 THEN <<>>
        ELSE [i \in 1..Len(inner[3].v.arr) |-> inner[3].v.arr[i].s]

\* the request went through endpointToHandler (a route, or the default not-found handler)
Pipeline == Served /\ resp.group # 0

\* C4: an error without a status code is answered 500 with the unknown-error
\* envelope; without details when the registering group's DumpErrors is
\* off, and with the error's text (tabs as two spaces) split on newlines,
\* a non-empty list, when it is on.
C4_UnknownErrorEnvelope ==
    (Served /\ resp.out.tag = "err" /\ ~IsHTTPErrorResponse(resp.out.val)) =>
        /\ Len(resp.w.body) = 1
        /\ LET details == DetailsOf(resp.w.body[1].json)
           IN  /\ Answers(500, Envelope("unknown_error", "an unknown error occurred",
                                        details))
               /\ ~routers[resp.group].DumpErrors => details = <<>>
               /\ routers[resp.group].DumpErrors =>
                     /\ Len(details) >= 1
                     /\ \A i \in 1..Len(details) :
                           ~HasChar(details[i], Newline) /\ ~HasChar(details[i], Tab)
                     /\ Join(details, Newline)
                           = Replace(resp.out.val.text, Tab, <<Space, Space>>)

C4_Witness ==
    /\ Served /\ resp.endpoint = "failMulti" /\ resp.out.tag = "err"
    /\ resp.group # 1
    /\ routers[resp.group].DumpErrors /\ ~routers[1].DumpErrors
    /\ Len(resp.w.body) = 1
    /\ Len(DetailsOf(resp.w.body[1].json)) = 2

\* C5: an error that exposes a status code is answered with exactly that
\* status and its own serialization, whatever DumpErrors is.
C5_StatusErrorPassesThrough ==
    (Served /\ resp.out.tag = "err" /\ IsHTTPErrorResponse(resp.out.val)) =>
        LET err == resp.out.val
        IN  /\ err.t = "HTTPError" =>
                  Answers(err.Status, Envelope(err.Code, err.Message, err.Details))
            /\ err.t = "testError" =>
                  Answers(err.status, JObj(<< Member("message", JStr(err.Message)) >>))

C5_Witness ==
    /\ Served /\ resp.matched /\ resp.out.tag = "err"
    /\ resp.out.val.t = "testError"
    /\ routers[resp.group].DumpErrors
    /\ resp.w.status = 444

\* C6: a panic of the endpoint or of a middleware is caught: the request is
\* answered 500 with the unknown-error envelope (no details), nothing
\* reaches the transport, and the next request is answered as usual.
C6_PanicRecovered ==
    /\ (Served /\ resp.out.tag = "panic") =>
          /\ ~resp.escaped
          /\ resp.w.calls = <<500>>
          /\ Answers(500, Envelope("unknown_error", "an unknown error occurred", <<>>))
    /\ (Pipeline /\ resp.afterPanic) =>
          /\ ~resp.escaped
          /\ Len(resp.w.calls) >= 1
          /\ resp.endpoint = "notFound" =>
                Answers(404, Envelope("not_found", "url not found", <<>>))
          /\ (resp.endpoint = "hello" /\ resp.out.tag = "ok") =>
                Answers(200, JObj(<< Member("message", JStr("Hello World")) >>))

C6_Witness ==
    /\ Pipeline /\ resp.afterPanic
    /\ resp.out.tag # "panic"
    /\ resp.w.status = 404
    /\ routers[1].DumpErrors

\* C7: every request the pipeline handles ends with exactly one status line
\* and at most one document (none only for a nil body), and the status
\* that goes out is the one chosen for the document written.
C7_OneStatusOneDocument ==
    Pipeline =>
        /\ Len(resp.w.calls) = 1
        /\ Len(resp.w.body) <= 1
        /\ \A i \in 1..Len(resp.w.body) : resp.w.body[i].status = resp.w.status

\* a value the encoder can send
Encodable(v) == v = Nil \/ Marshal(v).ok

\* the body of the response is v: empty for nil, else the one document of v
BodyIs(v) ==
    IF v = Nil THEN resp.w.body = <<>>
    ELSE Len(resp.w.body) = 1 /\ resp.w.body[1].json = Marshal(v).json

\* C8: on success a Response gives its StatusCode and Body, any other value
\* gives 200 and itself; a nil body still sends the status and headers,
\* with an empty body.
C8_SuccessStatusAndBody ==
    (Served /\ resp.out.tag = "ok") =>
        LET v == resp.out.val
            body == IF v.t = "Response" THEN v.Body ELSE v
        IN  Encodable(body) =>
                /\ resp.w.status = (IF v.t = "Response" THEN v.StatusCode ELSE 200)
                /\ BodyIs(body)
                /\ resp.w.calls = <<resp.w.status>>
                /\ <<"content-type", ContentTypeJSON>> \in resp.w.sent

C8_Witness ==
    /\ Served /\ resp.endpoint = "noContent" /\ resp.out.tag = "ok"
    /\ resp.w.status = 204
    /\ resp.w.body = <<>>

\* C9: an unmatched request gets the default 404 envelope when the router
\* was made without a not-found handler, and otherwise exactly what the
\* handler given to NewRouter writes: no middleware runs, nothing is
\* translated or recovered.
C9_NotFound ==
    (Served /\ ~resp.matched) =>
        IF routers[1].notFound = 0
        THEN /\ Answers(404, Envelope("not_found", "url not found", <<>>))
             /\ resp.trace = <<Enter("notFound"), Exit("notFound")>>
        ELSE /\ resp.w = CustomHandler(routers[1].notFound, NewWriter).w
             /\ resp.escaped = CustomHandler(routers[1].notFound, NewWriter).escaped
             /\ resp.trace = <<>>
             /\ ~resp.recovered

C9_Witness ==
    /\ Served /\ ~resp.matched
    /\ routers[1].notFound = 1
    /\ resp.w.status = 200
    /\ Len(routers[1].middleware) > 0
    /\ \E g \in 2..Len(routers) : routers[g].notFound = 2

\* the configuration flags of a Router struct
Config(r) == <<r.disableJSONIndent, r.enableCompression, r.gzipHandler, r.notFound>>

\* C10: every group's configuration is what applying, in order, the options
\* its parent was configured with and then its own options gives; a group
\* made without options has its parent's indent setting.
C10_GroupConfigFromParentOptions ==
    \A g \in 2..Len(routers) :
        /\ Config(routers[g]) = Config(ApplyAll(given[g], ZeroRouter))
        /\ given[g] = given[routers[g].parent] =>
              routers[g].disableJSONIndent = routers[routers[g].parent].disableJSONIndent

\* the entries of every path table of the tree
AllRoutes == UNION {tables[t].routes : t \in 1..Len(tables)}

\* C11: a request served through the root whose method and path match a
\* route registered on any group goes to that route's endpoint and to no
\* other, with the path parameters bound, through the middleware chain of
\* the registering group, and is answered with that group's indent and
\* DumpErrors settings.
C11_SharedPathTable ==
    Served =>
        \A en \in AllRoutes :
            (en.method = resp.method /\ Match(en.path, resp.path)) =>
                /\ resp.matched
                /\ Entered(resp.trace) = ChainRootFirst(en.by) \o <<en.e.endpoint>>
                /\ en.e.endpoint = "user" => resp.out = Ok(M("id", resp.path[2]))
                /\ Len(resp.w.body) = 1
                /\ resp.w.body[1].indent = ~routers[en.by].disableJSONIndent
                /\ en.e.endpoint = "fail" =>
                      (DetailsOf(resp.w.body[1].json) # <<>> <=> routers[en.by].DumpErrors)

C11_Witness ==
    /\ Served /\ resp.matched /\ resp.method = "POST"
    /\ resp.endpoint = "fail"
    /\ routers[resp.group].parent > 1
    /\ routers[resp.group].disableJSONIndent /\ ~routers[1].disableJSONIndent
    /\ routers[resp.group].DumpErrors /\ ~routers[1].DumpErrors
    /\ Len(routers[routers[resp.group].parent].middleware) = 1
    /\ \E en \in AllRoutes : en.method = "GET" /\ en.by = 1 /\ en.e.endpoint = "user"

\* the response names an encoding of its body
Encoded == \E h \in resp.w.sent : h[1] = "content-encoding"

\* what the router's path table writes for the request of resp when nothing
\* stands between it and the client
Uncompressed ==
    Dispatch(tables[routers[resp.via].router], resp.method, resp.path, NewWriter).w

\* C12: Content-Encoding: gzip is sent only if the router serving the request
\* has compression enabled and the request advertises gzip; when gzip is not
\* advertised or compression is not enabled the response goes out as the
\* uncompressed path writes it, with no Content-Encoding; in every case the
\* status and the JSON read back from the body are those of the
\* uncompressed path.
C12_GzipNegotiation ==
    Served =>
        LET enabled == routers[resp.via].enableCompression
            advertised == "gzip" \in resp.accept
            gzipped == <<"content-encoding", "gzip">> \in resp.w.sent
        IN  /\ gzipped => (enabled /\ advertised)
            /\ Encoded => gzipped
            /\ ~(enabled /\ advertised) => (~Encoded /\ resp.w = Uncompressed)
            /\ resp.w.status = Uncompressed.status
            /\ (IF gzipped THEN Gunzip(resp.w.body) ELSE resp.w.body) = Uncompressed.body

C12_Witness ==
    /\ Served /\ resp.matched /\ resp.via # 1
    /\ routers[resp.via].enableCompression /\ ~routers[1].enableCompression
    /\ resp.accept = {"deflate", "gzip"}
    /\ <<"content-encoding", "gzip">> \in resp.w.sent
    /\ resp.w.status = 200
    /\ Len(resp.w.body) = 1 /\ Len(Gunzip(resp.w.body)) = 1
    /\ Gunzip(resp.w.body)[1].json = JObj(<< Member("message", JStr("Hello World")) >>)

\* the response went out with Content-Type: application/json; charset=utf-8
SentAsJSON == <<"content-type", ContentTypeJSON>> \in resp.w.sent

\* C13 as stated: every response the router gives, whatever the outcome
\* (success value, Response, nil body, translated error, recovered panic,
\* unmatched route), carries Content-Type: application/json; charset=utf-8.
C13_ContentTypeAlways ==
    (Served /\ resp.w.calls # <<>>) => SentAsJSON

\* C13 amended: every request that goes through endpointToHandler, a matched
\* route or an unmatched one answered by the default not-found handler, is
\* answered, and with Content-Type: application/json; charset=utf-8, whatever
\* the outcome; a not-found handler given to NewRouter sends the headers it sets.
C13_ContentTypeFromPipeline ==
    /\ Pipeline => (resp.w.calls # <<>> /\ SentAsJSON)
    /\ (Served /\ ~Pipeline) => resp.w = CustomHandler(routers[1].notFound, NewWriter).w

C13_Witness ==
    /\ Pipeline /\ resp.matched
    /\ resp.endpoint = "chan" /\ resp.recovered
    /\ resp.w.calls = <<200, 500>>
    /\ SentAsJSON
    /\ routers[1].notFound = 3

\* the Requests there are: those of the running handlers and the last one answered
Requests ==
    {inflight[i].req : i \in 1..Len(inflight)} \cup (IF Served THEN {resp.req} ELSE {})

\* the value the latest Set of key among the first n calls of log gave it, nil if none
LatestSet(log, n, key) ==
    LET sets == {j \in 1..n : log[j].op = "Set" /\ log[j].key = key}
    IN  IF sets = {} THEN Nil
        ELSE log[CHOOSE j \in sets : \A k \in sets : k <= j].val

\* C14: a Request starts with an empty scratch store, and every Get returns
\* the value of the latest earlier Set of that key on the same Request (nil
\* if there is none), whatever other requests running at the same time have
\* stored.
C14_ScratchStorePerRequest ==
    \A req \in Requests :
        /\ req.log = <<>> => req.meta = {}
        /\ \A n \in 1..Len(req.log) :
              req.log[n].op = "Get" =>
                  req.log[n].val = LatestSet(req.log, n - 1, req.log[n].key)
        /\ \A p \in req.meta : p[2] = LatestSet(req.log, Len(req.log), p[1])

C14_Witness ==
    /\ Len(inflight) = 2
    /\ inflight[1].path = <<"users", "123">> /\ inflight[2].path = <<"users", "456">>
    /\ inflight[1].req.meta = {<<"user", Str("123")>>}
    /\ inflight[2].req.log # <<>>
    /\ inflight[2].req.log[Len(inflight[2].req.log)] =
           [op |-> "Get", key |-> "user", val |-> Str("456")]
    /\ Served /\ resp.path = <<"hello">> /\ resp.out = Ok(M("user", "self"))

\* C15: what unknownError points to never changes, its details stay empty,
\* whatever requests fail or panic and however they interleave; so the 500
\* answer for an internal error of a group with DumpErrors off, and the one
\* for a recovered panic, is the unknown-error envelope without details.
C15_UnknownErrorUntouched ==
    /\ unknownError = [t |-> "HTTPError", Code |-> "unknown_error",
                       Message |-> "an unknown error occurred", Details |-> <<>>,
                       Status |-> 500]
    /\ (/\ Served
        /\ \/ resp.recovered
           \/ /\ resp.out.tag = "err" /\ ~IsHTTPErrorResponse(resp.out.val)
              /\ ~routers[resp.group].DumpErrors)
       => /\ Answers(500, Envelope("unknown_error", "an unknown error occurred", <<>>))
          /\ ~CarriesDetails(resp.w)

C15_Witness ==
    /\ Served /\ resp.afterDump
    /\ resp.out.tag = "err" /\ ~routers[resp.group].DumpErrors
    /\ resp.w.status = 500 /\ ~CarriesDetails(resp.w)
    /\ Len(inflight) = 2
    /\ inflight[1].out.tag = "err" /\ routers[inflight[1].to.r].DumpErrors
    /\ inflight[2].out = Running

\* the option list router g holds in the state with routers rs and heap hp
StoredOptions(rs, hp, g) == SliceElems(hp, rs[g].options)

\* C16: no step (Group, Use, Handle, an assignment to DumpErrors) changes the
\* indent, compression or not-found setting or the stored option list of a
\* router that exists already, parent and siblings of a new group included;
\* and DumpErrors of a router changes only by the assignment to that router.
C16_ExistingConfigUnchanged ==
    [][\A g \in 1..Len(routers) :
          /\ Config(routers'[g]) = Config(routers[g])
          /\ StoredOptions(routers', heap', g) = StoredOptions(routers, heap, g)
          /\ routers'[g].DumpErrors # routers[g].DumpErrors =>
                /\ Len(routers') = Len(routers)
                /\ \A h \in 1..Len(routers) :
                      h # g => routers'[h].DumpErrors = routers[h].DumpErrors]_vars

====
